---- MODULE Spec2Model ----
(***************************************************************************)
(* Model of backend.js: an Express application that relays create-user,    *)
(* list-users and delete-user to the identity provider's admin API behind  *)
(* the requireAdmin gate.                                                  *)
(*                                                                         *)
(* JavaScript values are encoded as follows.  A string the code inspects   *)
(* character by character (the Authorization header) is a tuple of         *)
(* one-character strings.  A value that may be undefined/null is a set     *)
(* with at most one element: {} is undefined, {v} is the value v.          *)
(*                                                                         *)
(* The event loop runs one callback at a time, so every action is the      *)
(* code between two successive awaits of one request.                      *)
(***************************************************************************)
EXTENDS Naturals, Sequences, FiniteSets, TLC

VARIABLES
    reqs,       \* the requests the process holds, in arrival order
    arrived,    \* number of requests received so far
    users,      \* provider: the ids of the accounts that exist
    nextId,     \* provider: counter the ids of new accounts are drawn from
    calls,      \* the privileged admin calls made so far, in order
    express     \* major version of the framework the build runs on

vars == <<reqs, arrived, users, nextId, calls, express>>

----------------------------------------------------------------------------
(* Bounds *)

MaxReq == 2         \* requests in ConcSpec (all may be in flight together)
MaxArrivals == 2    \* requests served one after another in Spec
InitUsers == 1      \* accounts that exist at the provider at start

----------------------------------------------------------------------------
(* Strings as tuples of characters *)

Bearer == <<"B", "e", "a", "r", "e", "r", " ">>
Basic == <<"B", "a", "s", "i", "c", " ">>
LowerBearer == <<"b", "e", "a", "r", "e", "r", " ">>

\* String.prototype.startsWith
StartsWith(s, p) == Len(s) >= Len(p) /\ SubSeq(s, 1, Len(p)) = p

\* String.prototype.slice(k)
Slice(s, k) == SubSeq(s, k + 1, Len(s))

\* authHeader.slice(7): the length of 'Bearer '
BearerLen == 7

\* JavaScript truthiness of an optional string: undefined and '' are falsy
Truthy(v) == v # {} /\ v # {""}

TheOne(s) == CHOOSE v \in s : TRUE

----------------------------------------------------------------------------
(* The provider's view of the world *)

UserId(n) == "u" \o ToString(n)

Identity(id, meta) == [id |-> id, user_metadata |-> meta]

\* Caller tokens the provider knows, and the identity each resolves to
Sessions ==
    (<<"A">> :> Identity("admin-1", {[role |-> {"admin"}]})) @@
    (<<"U">> :> Identity("user-1",  {[role |-> {"user"}]})) @@
    (<<"C">> :> Identity("user-2",  {[role |-> {"Admin"}]})) @@
    (<<"R">> :> Identity("user-3",  {[role |-> {}]})) @@
    (<<"N">> :> Identity("user-4",  {}))

\* A token the provider does not know
BadToken == <<"X">>

Tokens == DOMAIN Sessions \cup {BadToken}

NotFoundMsg == "User not found"
ProviderMsgs == {"User already registered", "fetch failed"}

----------------------------------------------------------------------------
(* Inbound requests *)

Methods == {"GET", "POST", "OPTIONS"}
Paths == {"/admin/health", "/admin/create-user", "/admin/list-users",
          "/admin/delete-user", "/other"}

\* The Authorization header: absent, empty, or a value
AuthHeaders ==
    {{}, {<<>>}, {Basic \o <<"A">>}, {LowerBearer \o <<"A">>}, {Bearer}}
    \cup {{Bearer \o t} : t \in Tokens}

Obj(email, password, meta, id) ==
    [email |-> email, password |-> password, user_metadata |-> meta, id |-> id]

EmptyObj == Obj({}, {}, {}, {})

\* Request bodies as sent: none, text that is not JSON, or a JSON object
Bodies ==
    {[kind |-> "none", obj |-> EmptyObj], [kind |-> "malformed", obj |-> EmptyObj]}
    \cup {[kind |-> "json", obj |-> o] : o \in
            {EmptyObj,
             Obj({"a@b.com"}, {"x"}, {}, {}),
             Obj({"a@b.com"}, {"x"}, {[role |-> {"admin"}]}, {}),
             Obj({"a@b.com"}, {}, {}, {}),
             Obj({"a@b.com"}, {""}, {}, {}),
             Obj({}, {"x"}, {}, {}),
             Obj({""}, {"x"}, {}, {}),
             Obj({}, {}, {}, {""}),
             Obj({}, {}, {}, {UserId(1)}),
             Obj({}, {}, {}, {UserId(2)})}}

Request(method, path, auth, raw) ==
    [method |-> method, path |-> path, auth |-> auth, raw |-> raw]

\* Every combination of method, path, header and body
Requests ==
    {Request(m, p, a, b) : m \in Methods, p \in Paths, a \in AuthHeaders, b \in Bodies}

AdminAuth == {Bearer \o <<"A">>}
JsonBody(o) == [kind |-> "json", obj |-> o]
NoBody == [kind |-> "none", obj |-> EmptyObj]

\* The requests that are interleaved with each other in ConcSpec
ConcRequests ==
    {Request("POST", "/admin/delete-user", AdminAuth, JsonBody(Obj({}, {}, {}, {UserId(1)}))),
     Request("POST", "/admin/delete-user", AdminAuth, JsonBody(Obj({}, {}, {}, {UserId(2)}))),
     Request("POST", "/admin/create-user", AdminAuth, JsonBody(Obj({"a@b.com"}, {"x"}, {}, {}))),
     Request("GET", "/admin/list-users", AdminAuth, NoBody),
     Request("POST", "/admin/delete-user", {Bearer \o <<"U">>}, JsonBody(Obj({}, {}, {}, {UserId(1)}))),
     Request("POST", "/admin/delete-user", {}, JsonBody(Obj({}, {}, {}, {UserId(1)}))),
     Request("GET", "/admin/health", {}, NoBody)}

----------------------------------------------------------------------------
(* Responses *)

NoRes == [ctype |-> "none", error |-> {}, data |-> "none"]
JsonError(msg) == [ctype |-> "json", error |-> {msg}, data |-> "none"]
JsonData(d) == [ctype |-> "json", error |-> {}, data |-> d]
HtmlPage == [ctype |-> "html", error |-> {}, data |-> "none"]

\* res.status(s).json(b) / res.json(b) / the framework's own replies
Send(r, status, res, by) ==
    [r EXCEPT !.status = status, !.res = res, !.by = by,
              !.nresp = @ + 1, !.pc = "done"]

\* Nothing of the request is left to run
Finished(r) == r.pc \in {"done", "rejected"}

----------------------------------------------------------------------------
(* Process start *)

\* prior: the requests that had finished when this one arrived
NewReq(n, q, prior) ==
    [n |-> n, prior |-> prior, method |-> q.method, path |-> q.path, auth |-> q.auth, raw |-> q.raw,
     body |-> {}, pc |-> "new", status |-> 0, res |-> NoRes, by |-> "none",
     nresp |-> 0, user |-> {}, got |-> {}, handlerRan |-> FALSE,
     nGetUser |-> 0, nAdmin |-> 0]

Init ==
    /\ reqs = <<>>
    /\ arrived = 0
    /\ users = {UserId(k) : k \in 1..InitUsers}
    /\ nextId = InitUsers + 1
    /\ calls = <<>>
    /\ express \in {4, 5}

----------------------------------------------------------------------------
(* The operation handlers, up to their provider call *)

\* const { email, password, user_metadata } = req.body || {}
BodyOrEmpty(r) == IF r.body = {} THEN EmptyObj ELSE TheOne(r.body)

\* Variant: !email && !password
CreateInputBothMissing(o) == ~Truthy(o.email) /\ ~Truthy(o.password)

\* !email || !password
CreateInputMissing(o) == ~Truthy(o.email) \/ ~Truthy(o.password)

\* !id
DeleteInputMissing(o) == ~Truthy(o.id)

\* Issuing adminClient.auth.admin.<op>(...) and suspending on it
CallAdmin(r, op) == [r EXCEPT !.pc = op, !.nAdmin = @ + 1]

createUserHandler(r) ==
    IF CreateInputMissing(BodyOrEmpty(r))
    THEN Send(r, 400, JsonError("email and password required"), "handler")
    ELSE CallAdmin(r, "createUser")

listUsersHandler(r) == CallAdmin(r, "listUsers")

deleteUserHandler(r) ==
    IF DeleteInputMissing(BodyOrEmpty(r))
    THEN Send(r, 400, JsonError("id required"), "handler")
    ELSE CallAdmin(r, "deleteUser")

\* next(): the route's handler runs until it returns or suspends
RouteHandler(r) ==
    LET h == [r EXCEPT !.handlerRan = TRUE] IN
    CASE r.path = "/admin/create-user" -> createUserHandler(h)
      [] r.path = "/admin/list-users" -> listUsersHandler(h)
      [] OTHER -> deleteUserHandler(h)

----------------------------------------------------------------------------
(* requireAdmin *)

\* req.headers['authorization'] || ''
AuthHeader(r) == IF r.auth = {} THEN <<>> ELSE TheOne(r.auth)

\* authHeader.startsWith('Bearer ') ? authHeader.slice(7) : null
Token(r) ==
    IF StartsWith(AuthHeader(r), Bearer) THEN {Slice(AuthHeader(r), BearerLen)} ELSE {}

\* Variant: only the empty string is taken for a missing token
NoTokenEmptyOnly(t) == t = {<<>>}

\* !token
NoToken(t) == t = {} \/ t = {<<>>}

\* The gate up to its await of adminClient.auth.getUser(token)
requireAdminEnter(r) ==
    IF NoToken(Token(r))
    THEN Send(r, 401, JsonError("Missing bearer token"), "gate")
    ELSE [r EXCEPT !.pc = "getUser", !.nGetUser = @ + 1]

\* error || !user
InvalidToken(out) == out.error # {} \/ out.user = {}

\* user.user_metadata?.role
Role(user) ==
    IF user.user_metadata = {} THEN {} ELSE TheOne(user.user_metadata).role

\* Variant: the role compared without regard to case
NotAdminAnyCase(role) == role # {"admin"} /\ role # {"Admin"}

\* role !== 'admin'
NotAdmin(role) == role # {"admin"}

\* Variant: next() without req.user = user
PermitNoAttach(r, user) == RouteHandler(r)

\* req.user = user; next()
Permit(r, user) == RouteHandler([r EXCEPT !.user = {user}])

\* Variant: a reported error is thrown (if (error) throw error) and so
\* ends in the catch block
requireAdminErrorThrown(r, out) ==
    LET g == [r EXCEPT !.got = {out}] IN
    IF out.thrown \/ out.error # {}
    THEN Send(g, 500, JsonError("Auth verification failed"), "gate")
    ELSE IF out.user = {}
    THEN Send(g, 401, JsonError("Invalid token"), "gate")
    ELSE IF NotAdmin(Role(TheOne(out.user)))
    THEN Send(g, 403, JsonError("Admin only"), "gate")
    ELSE Permit(g, TheOne(out.user))

\* The gate from the return of getUser on
requireAdminResume(r, out) ==
    LET g == [r EXCEPT !.got = {out}] IN
    IF out.thrown
    THEN Send(g, 500, JsonError("Auth verification failed"), "gate")
    ELSE IF InvalidToken(out)
    THEN Send(g, 401, JsonError("Invalid token"), "gate")
    ELSE IF NotAdmin(Role(TheOne(out.user)))
    THEN Send(g, 403, JsonError("Admin only"), "gate")
    ELSE Permit(g, TheOne(out.user))

----------------------------------------------------------------------------
(* Middleware and routing *)

\* cors(): an OPTIONS request is answered as a preflight and goes no further
IsPreflight(r) == r.method = "OPTIONS"

\* express.json(): req.body after parsing; with no body to parse the
\* framework leaves {} (version 4) or undefined (version 5)
ParsedBody(r) ==
    IF r.raw.kind = "json" THEN {r.raw.obj}
    ELSE IF express = 4 THEN {EmptyObj} ELSE {}

Gated == {<<"POST", "/admin/create-user">>, <<"GET", "/admin/list-users">>,
          <<"POST", "/admin/delete-user">>}

OnGatedRoute(r) == <<r.method, r.path>> \in Gated

\* Variant: list-users registered without the gate
RouteListUngated(r) ==
    IF <<r.method, r.path>> = <<"GET", "/admin/health">>
    THEN Send(r, 200, JsonData("ok"), "health")
    ELSE IF <<r.method, r.path>> = <<"GET", "/admin/list-users">>
    THEN RouteHandler(r)
    ELSE IF OnGatedRoute(r)
    THEN requireAdminEnter(r)
    ELSE Send(r, 404, HtmlPage, "router")

\* app.get / app.post: the routes registered, in order
Route(r) ==
    IF <<r.method, r.path>> = <<"GET", "/admin/health">>
    THEN Send(r, 200, JsonData("ok"), "health")
    ELSE IF OnGatedRoute(r)
    THEN requireAdminEnter(r)
    ELSE Send(r, 404, HtmlPage, "router")

\* One request through app.use(cors()), app.use(express.json()) and the router
Dispatch(r) ==
    IF IsPreflight(r) THEN Send(r, 204, NoRes, "cors")
    ELSE IF r.raw.kind = "malformed" THEN Send(r, 400, HtmlPage, "json")
    ELSE Route([r EXCEPT !.body = ParsedBody(r)])

----------------------------------------------------------------------------
(* The provider *)

GetUserOk(user) == [user |-> {user}, error |-> {}, thrown |-> FALSE]
GetUserError(msg) == [user |-> {}, error |-> {msg}, thrown |-> FALSE]
GetUserNothing == [user |-> {}, error |-> {}, thrown |-> FALSE]
GetUserThrows == [user |-> {}, error |-> {}, thrown |-> TRUE]

\* What auth.getUser(token) can come back with
GetUserResults(token) ==
    {IF token # {} /\ TheOne(token) \in DOMAIN Sessions
       THEN GetUserOk(Sessions[TheOne(token)])
       ELSE GetUserError("invalid JWT"),
     GetUserError("fetch failed"), GetUserNothing, GetUserThrows}


\* A rejected promise of an async route handler: version 4 of the framework
\* never learns of it and the request is left without a response; version 5
\* hands it to the default error handler, which answers 500 with a page
Unhandled(r) ==
    IF express = 4 THEN [r EXCEPT !.pc = "rejected"]
    ELSE Send(r, 500, HtmlPage, "framework")

Call(r, op, arg, meta, before, after, error) ==
    [n |-> r.n, caller |-> r.user, op |-> op, arg |-> arg, meta |-> meta,
     before |-> before, after |-> after, error |-> error]

\* user_metadata: user_metadata || { role: 'user' }
MetadataOrDefault(o) ==
    IF o.user_metadata = {} THEN [role |-> {"user"}] ELSE TheOne(o.user_metadata)

\* Variant: the provider's message replaced by a text of the relay's own
PassThroughGeneric(r, msg) == Send(r, 400, JsonError("Bad request"), "handler")

\* if (error) return res.status(400).json({ error: error.message })
PassThrough(r, msg) == Send(r, 400, JsonError(msg), "handler")

createUserResume(r, error) ==
    IF error # {} THEN PassThrough(r, TheOne(error))
    ELSE Send(r, 200, JsonData("user"), "handler")

listUsersResume(r, error) ==
    IF error # {} THEN PassThrough(r, TheOne(error))
    ELSE Send(r, 200, JsonData("users"), "handler")

\* Variant: the provider's error ignored, every delete acknowledged
deleteUserIgnoreError(r, error) == Send(r, 200, JsonData("success"), "handler")

deleteUserResume(r, error) ==
    IF error # {} THEN PassThrough(r, TheOne(error))
    ELSE Send(r, 200, JsonData("success"), "handler")

----------------------------------------------------------------------------
(* Actions *)

FinishedNow == {reqs[i].n : i \in {j \in DOMAIN reqs : Finished(reqs[j])}}

\* A request arrives while others may be in flight
Receive ==
    /\ arrived < MaxReq
    /\ arrived' = arrived + 1
    /\ \E q \in ConcRequests : reqs' = Append(reqs, Dispatch(NewReq(arrived + 1, q, FinishedNow)))
    /\ UNCHANGED <<users, nextId, calls, express>>

\* A request arrives when no other is being served
ReceiveNext ==
    /\ arrived < MaxArrivals
    /\ reqs = <<>>
    /\ arrived' = arrived + 1
    /\ \E q \in Requests : reqs' = <<Dispatch(NewReq(arrived + 1, q, {}))>>
    /\ UNCHANGED <<users, nextId, calls, express>>

\* The request that has finished is released
Release ==
    /\ reqs # <<>>
    /\ \A i \in DOMAIN reqs : Finished(reqs[i])
    /\ reqs' = <<>>
    /\ UNCHANGED <<arrived, users, nextId, calls, express>>

\* await adminClient.auth.getUser(token) completes
GetUserReturns(i) ==
    /\ i \in DOMAIN reqs
    /\ reqs[i].pc = "getUser"
    /\ \E out \in GetUserResults(Token(reqs[i])) :
         reqs' = [reqs EXCEPT ![i] = requireAdminResume(reqs[i], out)]
    /\ UNCHANGED <<arrived, users, nextId, calls, express>>

\* await adminClient.auth.admin.createUser({...}) completes
CreateUserReturns(i) ==
    LET r == reqs[i]
        o == BodyOrEmpty(r)
        id == UserId(nextId) IN
    /\ i \in DOMAIN reqs
    /\ r.pc = "createUser"
    /\ \/ /\ users' = users \cup {id}
          /\ nextId' = nextId + 1
          /\ calls' = Append(calls, Call(r, "createUser", o.email,
                                         {MetadataOrDefault(o)}, users, users', {}))
          /\ reqs' = [reqs EXCEPT ![i] = createUserResume(r, {})]
       \/ \E msg \in ProviderMsgs :
          /\ calls' = Append(calls, Call(r, "createUser", o.email,
                                         {MetadataOrDefault(o)}, users, users, {msg}))
          /\ reqs' = [reqs EXCEPT ![i] = createUserResume(r, {msg})]
          /\ UNCHANGED <<users, nextId>>
       \/ /\ reqs' = [reqs EXCEPT ![i] = Unhandled(r)]
          /\ UNCHANGED <<users, nextId, calls>>
    /\ UNCHANGED <<arrived, express>>

\* await adminClient.auth.admin.listUsers() completes
ListUsersReturns(i) ==
    LET r == reqs[i] IN
    /\ i \in DOMAIN reqs
    /\ r.pc = "listUsers"
    /\ \/ /\ calls' = Append(calls, Call(r, "listUsers", {}, {}, users, users, {}))
          /\ reqs' = [reqs EXCEPT ![i] = listUsersResume(r, {})]
       \/ /\ calls' = Append(calls, Call(r, "listUsers", {}, {}, users, users,
                                         {"fetch failed"}))
          /\ reqs' = [reqs EXCEPT ![i] = listUsersResume(r, {"fetch failed"})]
       \/ /\ reqs' = [reqs EXCEPT ![i] = Unhandled(r)]
          /\ UNCHANGED calls
    /\ UNCHANGED <<arrived, users, nextId, express>>

\* await adminClient.auth.admin.deleteUser(id) completes
DeleteUserReturns(i) ==
    LET r == reqs[i]
        id == BodyOrEmpty(r).id IN
    /\ i \in DOMAIN reqs
    /\ r.pc = "deleteUser"
    /\ \/ /\ id \subseteq users
          /\ users' = users \ id
          /\ calls' = Append(calls, Call(r, "deleteUser", id, {}, users, users', {}))
          /\ reqs' = [reqs EXCEPT ![i] = deleteUserResume(r, {})]
       \/ /\ ~(id \subseteq users)
          /\ calls' = Append(calls, Call(r, "deleteUser", id, {}, users, users,
                                         {NotFoundMsg}))
          /\ reqs' = [reqs EXCEPT ![i] = deleteUserResume(r, {NotFoundMsg})]
          /\ UNCHANGED users
       \/ /\ calls' = Append(calls, Call(r, "deleteUser", id, {}, users, users,
                                         {"fetch failed"}))
          /\ reqs' = [reqs EXCEPT ![i] = deleteUserResume(r, {"fetch failed"})]
          /\ UNCHANGED users
       \/ /\ reqs' = [reqs EXCEPT ![i] = Unhandled(r)]
          /\ UNCHANGED <<users, calls>>
    /\ UNCHANGED <<arrived, nextId, express>>

----------------------------------------------------------------------------
(* Specifications *)

Slots == 1..MaxReq

\* Requests of every shape, served one after another
Next ==
    \/ ReceiveNext
    \/ Release
    \/ GetUserReturns(1)
    \/ CreateUserReturns(1)
    \/ ListUsersReturns(1)
    \/ DeleteUserReturns(1)

Spec == Init /\ [][Next]_vars

\* Requests in flight together
ConcNext ==
    \/ Receive
    \/ \E i \in Slots : GetUserReturns(i)
    \/ \E i \in Slots : CreateUserReturns(i)
    \/ \E i \in Slots : ListUsersReturns(i)
    \/ \E i \in Slots : DeleteUserReturns(i)

ConcSpec == Init /\ [][ConcNext]_vars

ProviderReturns(i) ==
    \/ GetUserReturns(i)
    \/ CreateUserReturns(i)
    \/ ListUsersReturns(i)
    \/ DeleteUserReturns(i)

\* Every provider call that has been issued eventually completes
FairSpec == ConcSpec /\ \A i \in Slots : WF_vars(ProviderReturns(i))

----------------------------------------------------------------------------
(* Properties *)

Present == {reqs[i] : i \in DOMAIN reqs}

NoAuthorization(r) == r.auth = {}
BodyParses(r) == r.raw.kind # "malformed"

\* getUser came back for r, without error, with an identity
GotIdentity(r) ==
    /\ r.got # {}
    /\ ~TheOne(r.got).thrown
    /\ TheOne(r.got).error = {}
    /\ TheOne(r.got).user # {}

ResolvedUser(r) == TheOne(TheOne(r.got).user)

GotAdmin(r) == GotIdentity(r) /\ Role(ResolvedUser(r)) = {"admin"}

C2_PrivilegedOnlyAfterAdminResolved ==
    /\ \A r \in Present :
        r.nAdmin > 0 \/ r.handlerRan \/ r.pc \in {"createUser", "listUsers", "deleteUser"} =>
            /\ GotAdmin(r)
            /\ r.nGetUser = 1
            /\ r.by # "gate"
    /\ \A k \in DOMAIN calls :
        /\ calls[k].caller # {}
        /\ Role(TheOne(calls[k].caller)) = {"admin"}

C2_Witness ==
    \E r \in Present :
        /\ r.nAdmin = 1 /\ r.pc = "done" /\ r.status = 200
        /\ \E k \in DOMAIN calls : calls[k].n = r.n

\* C3: when getUser resolves the token of a request on a gated route without
\* error to an identity whose role is anything but exactly 'admin', the gate
\* answers 403 and the operation handler does not run.
C3_NonAdminForbidden ==
    \A r \in Present :
        GotIdentity(r) /\ Role(ResolvedUser(r)) # {"admin"} =>
            /\ r.pc = "done"
            /\ r.status = 403
            /\ r.by = "gate"
            /\ ~r.handlerRan
            /\ r.nAdmin = 0

C3_Witness ==
    \E r \in Present :
        /\ GotIdentity(r) /\ Role(ResolvedUser(r)) = {"Admin"}
        /\ r.status = 403

\* C4: when getUser resolves the token of a request on a gated route without
\* error to an identity whose role is exactly 'admin', the gate attaches that
\* identity to the request, sends no response itself, and the route's
\* operation handler runs.
C4_AdminPermitted ==
    \A r \in Present :
        GotAdmin(r) =>
            /\ r.user = {ResolvedUser(r)}
            /\ r.by # "gate"
            /\ r.handlerRan
            /\ \/ r.pc \in {"createUser", "listUsers", "deleteUser", "rejected"}
               \/ r.pc = "done" /\ r.by \in {"handler", "framework"}

C4_Witness ==
    \E r \in Present :
        GotAdmin(r) /\ r.handlerRan /\ r.user # {} /\ r.pc = "listUsers"

\* C5: when getUser reports an error or returns no identity, the gate answers
\* 401 and the operation handler does not run; the gate's 500 is sent only
\* when getUser raised an exception.
C5_ReportedErrorIs401 ==
    \A r \in Present :
        /\ r.got # {} /\ ~TheOne(r.got).thrown
             /\ (TheOne(r.got).error # {} \/ TheOne(r.got).user = {}) =>
                /\ r.pc = "done"
                /\ r.status = 401
                /\ r.by = "gate"
                /\ ~r.handlerRan
                /\ r.nAdmin = 0
        /\ r.status = 500 /\ r.by = "gate" =>
                r.got # {} /\ TheOne(r.got).thrown

C5_Witness ==
    \E r \in Present :
        /\ r.got = {GetUserError("fetch failed")}
        /\ r.status = 401

\* Of a field as sent: missing or the empty string
Blank(f) == f = {} \/ f = {""}

\* A create-user request sent without email or password, or a delete-user
\* request sent without id, that reached its handler
InputShapeInvalid(r) ==
    /\ r.handlerRan
    /\ \/ /\ r.path = "/admin/create-user"
          /\ r.raw.kind = "none" \/ Blank(r.raw.obj.email) \/ Blank(r.raw.obj.password)
       \/ /\ r.path = "/admin/delete-user"
          /\ r.raw.kind = "none" \/ Blank(r.raw.obj.id)

CallsOf(r) == {k \in DOMAIN calls : calls[k].n = r.n}

\* C6 as stated: such a request is answered 400 and no provider call at all
\* is made in the course of handling it.
C6_NoProviderCallAtAll ==
    \A r \in Present :
        InputShapeInvalid(r) =>
            r.status = 400 /\ r.nGetUser = 0 /\ r.nAdmin = 0

\* C6 as amended: such a request, once the gate has permitted it, is answered
\* 400 by the handler without any privileged provider operation being invoked;
\* the one provider call made for it is the gate's getUser.
C6_NoPrivilegedCallOnBadInput ==
    \A r \in Present :
        InputShapeInvalid(r) =>
            /\ r.pc = "done"
            /\ r.status = 400
            /\ r.res.ctype = "json" /\ r.res.error # {}
            /\ r.nAdmin = 0
            /\ CallsOf(r) = {}
            /\ r.nGetUser = 1

C6_Witness ==
    \E r \in Present :
        /\ InputShapeInvalid(r)
        /\ r.path = "/admin/create-user" /\ r.raw.obj.password = {""}
        /\ r.status = 400 /\ r.nAdmin = 0

ErrorStatuses == {400, 401, 403, 500}

\* C7: every request to a gated route that fails, at whatever stage and in
\* whatever way, is answered with a JSON body holding an error string and a
\* status among 400, 401, 403 and 500.
C7_EveryFailureIsJsonError ==
    \A r \in Present :
        OnGatedRoute(r) /\ Finished(r) /\ r.status # 200 =>
            /\ r.nresp = 1
            /\ r.res.ctype = "json"
            /\ r.res.error # {}
            /\ r.status \in ErrorStatuses

\* C7 for the requests the gate permitted: the same, of the failures that
\* occur in an operation handler.
C7_HandlerFailureIsJsonError ==
    \A r \in Present :
        r.handlerRan /\ Finished(r) /\ r.status # 200 =>
            /\ r.nresp = 1
            /\ r.res.ctype = "json"
            /\ r.res.error # {}
            /\ r.status \in ErrorStatuses

\* C8: when the provider's privileged operation reports an error, the response
\* is 400 with the provider's message as its error and no success payload, and
\* the operation was invoked once for the request.
C8_ProviderErrorPassedThrough ==
    \A r \in Present :
        /\ r.nAdmin <= 1
        /\ Cardinality(CallsOf(r)) <= 1
        /\ \A k \in CallsOf(r) :
            calls[k].error # {} =>
                /\ r.pc = "done"
                /\ r.status = 400
                /\ r.res = JsonError(TheOne(calls[k].error))
                /\ r.nAdmin = 1
                /\ r.nresp = 1

C8_Witness ==
    \E r \in Present : \E k \in CallsOf(r) :
        /\ calls[k].op = "createUser"
        /\ calls[k].error = {"User already registered"}
        /\ r.status = 400 /\ r.res.error = {"User already registered"}

ReqOf(k) == CHOOSE r \in Present : r.n = calls[k].n

\* The provider answered the delete as a set of ids does: done, or not found
SetLike(k) == calls[k].op = "deleteUser" /\ calls[k].error \in {{}, {NotFoundMsg}}

\* C9: of two admin-authorized deletes of one id that the provider serves one
\* after the other, the account set unchanged in between, each forwards exactly
\* one delete call; the first is answered 200 {success:true} if the id existed,
\* the second 400 with the provider's not-found message, and the account set
\* after the second is the set after the first.
C9_SecondDeleteNotFound ==
    \A k, l \in DOMAIN calls :
        /\ k < l /\ SetLike(k) /\ SetLike(l)
        /\ calls[k].arg = calls[l].arg
        /\ calls[l].before = calls[k].after
        => /\ ReqOf(k).nAdmin = 1 /\ CallsOf(ReqOf(k)) = {k}
           /\ ReqOf(l).nAdmin = 1 /\ CallsOf(ReqOf(l)) = {l}
           /\ calls[k].arg \subseteq calls[k].before =>
                ReqOf(k).status = 200 /\ ReqOf(k).res = JsonData("success")
           /\ ReqOf(l).status = 400 /\ ReqOf(l).res = JsonError(NotFoundMsg)
           /\ calls[l].after = calls[k].after
           /\ users = calls[l].after \/ l < Len(calls)

\* The second delete request arrived after the first had been answered 200
C9_Witness ==
    \E k, l \in DOMAIN calls :
        /\ l = k + 1 /\ SetLike(k) /\ SetLike(l)
        /\ calls[k].arg = calls[l].arg
        /\ calls[k].arg \subseteq calls[k].before
        /\ ReqOf(k).n \in ReqOf(l).prior
        /\ ReqOf(k).status = 200
        /\ ReqOf(l).status = 400

\* C10 as a property of behaviours: every request to a registered route is
\* eventually answered, and none is answered twice.
C10_ExactlyOneResponse ==
    /\ [](\A r \in Present : r.nresp <= 1)
    /\ \A i \in Slots : [](i \in DOMAIN reqs => <>(i \in DOMAIN reqs /\ reqs[i].nresp = 1))

\* C10: once every provider call of a request to a registered route has
\* completed and nothing of the request is left to run, the request has been
\* answered, and exactly once.
C10_FinishedAnsweredOnce ==
    \A r \in Present : Finished(r) => r.nresp = 1

====
